---- MODULE Spec2Model ----
(***************************************************************************)
(* Contract registration and the apply_updates version orchestrator of the *)
(* AI regulatory compliance checker (regulatory/regupdate.py, app.py,      *)
(* rag.py, mail.py, chatbot.py).  The disk, the two JSON manifests, the    *)
(* wall clock, the UI session and the chatbot's index cache are the state; *)
(* every public operation is one action.                                   *)
(*                                                                         *)
(* A file name is a stem and an extension.  A stem is a sequence of        *)
(* tokens <<kind, n>>: the uploaded base name <<"a", 0>> followed by the   *)
(* suffixes the code appends with "_": <<"TS", t>> (upload collision),     *)
(* <<"RECTIFIED", t>> (rag.py) and <<"SUGGESTIONS", t>> (regupdate.py).    *)
(***************************************************************************)
EXTENDS Naturals, Sequences, FiniteSets, TLC

\* Bounds of the model.
MaxClock == 2
MaxStem == 3
MaxSteps == 5
MaxAttachments == 2
MaxFragments == 3
MaxMailSteps == 3
MaxChatSteps == 3
MaxUploads == 3
MaxRaceUploads == 2

VARIABLES
    disk,                \* path -> content, for the files that exist
    contract_manifest,   \* regulatory_storage/contract_manifests.json
    reg_manifest,        \* regulatory_storage/reg_manifests.json
    now,                 \* wall clock, in seconds
    RAG_AVAILABLE,       \* whether "from rag import ..." succeeded
    torn_writes,         \* whether a failing manifest write fails after the file was
                         \* truncated (in json.dump) or before (in mkdir / open)
    proc,                \* the passes of apply_updates that run concurrently
    last,                \* what the last step did and returned
    steps,               \* operations and clock ticks so far
    chatbot,             \* the module globals of chatbot.py
    session_state        \* st.session_state of the UI: the active contract

vars == <<disk, contract_manifest, reg_manifest, now, RAG_AVAILABLE, torn_writes, proc,
          last, steps, chatbot, session_state>>

----------------------------------------------------------------------------
\* Paths

NoPath == [dir |-> "none", stem |-> <<>>, ext |-> "none"]

mkpath(dir, stem, ext) == [dir |-> dir, stem |-> stem, ext |-> ext]

CONTRACT_DIR == "contracts"

CONTRACT_VERSIONS_DIR == "contract_versions_pdf"

SUGGESTIONS_DIR == "suggestions"

OUTSIDE_DIR == "outside"

BaseNames == {"a"}

Exts == {"pdf"}

UploadContents == {"A", "B"}

RegIds == {"EU_GDPR", "IN_DPDP", "IN_SPDI_RULES"}

exists(d, p) == p \in DOMAIN d

\* a cleanup by pattern: every file named after the same upload goes
unlink_glob(d, p) == [q \in {r \in DOMAIN d : r.stem[1] # p.stem[1]} |-> d[q]]

\* Path.unlink(): the file is gone afterwards
unlink(d, p) == [q \in (DOMAIN d) \ {p} |-> d[q]]

\* open(p, "wb"); write(content): creates or overwrites
write_file(d, p, content) == [q \in (DOMAIN d) \cup {p} |-> IF q = p THEN content ELSE d[q]]

----------------------------------------------------------------------------
\* Record Store

\* A manifest file is absent ("missing"), holds a JSON object ("json"), or holds
\* the beginning of one ("corrupt": data is what was being written).

\* a reader that takes whatever entries a damaged file still shows
load_json_lenient(file) == IF file.kind = "missing" THEN <<>> ELSE file.data

\* {} when the file is absent, {} when json.load raises, else the object
load_json(file) == IF file.kind = "json" THEN file.data ELSE <<>>

\* app.py reads the same file the same way: {} when absent or on any exception
load_contract_manifest(file) == IF file.kind = "json" THEN file.data ELSE <<>>

\* the write is inside try/except: a failure is printed, and the file is as
\* before when mkdir or open failed, cut short when json.dump failed
save_json(file, data, ok) ==
    IF ok THEN [kind |-> "json", data |-> data]
    ELSE IF torn_writes THEN [kind |-> "corrupt", data |-> data]
    ELSE file

\* a save that writes the caller's own entry and nothing else
put_alone(data, cid, entry) == (cid :> entry)

\* contract_manifests[cid] = entry
put(data, cid, entry) == [k \in (DOMAIN data) \cup {cid} |-> IF k = cid THEN entry ELSE data[k]]

\* an entry written without its current version
NewRecord_noCurrent(dest) ==
    [path |-> dest,
     current_version_path |-> NoPath,
     last_suggestions_pdf |-> NoPath,
     last_updated |-> 0]

\* an entry stamped with the time of its registration
NewRecord_stamped(dest) ==
    [path |-> dest,
     current_version_path |-> dest,
     last_suggestions_pdf |-> NoPath,
     last_updated |-> now]

\* the entry both registrars write; last_updated = 0 stands for "no such key".
\* The keys no operation reads back (id, registered_at, orig_name, saved_path)
\* are left out.
NewRecord(dest) ==
    [path |-> dest,
     current_version_path |-> dest,
     last_suggestions_pdf |-> NoPath,
     last_updated |-> 0]

\* an id that keeps the extension of the file name
contract_id_withExt(path) == Append(path.stem, <<path.ext, 0>>)

\* "key = saved_path.stem" (app.py), "cid = p.stem" (regupdate.py)
contract_id(path) == path.stem

\* no concurrent pass
NoProcs == <<>>

\* the session defaults: no active contract
NoSession == [active_contract_key |-> <<>>, active_contract_path |-> NoPath]

NoResult ==
    [op |-> "none", cid |-> <<>>, outcome |-> "none", src |-> NoPath, dest |-> NoPath,
     saved |-> FALSE, cpath |-> NoPath, old |-> NoPath, orig |-> NoPath,
     sugg |-> NoPath, rect |-> NoPath, rectCalled |-> FALSE, attachments |-> {},
     mailed |-> {}, smtp |-> "none", mailCalled |-> FALSE, fetched |-> <<>>,
     text |-> <<>>, findings |-> <<>>, suggSaved |-> FALSE, swapSaved |-> FALSE,
     storeAtRectify |-> NoPath, unlinkTried |-> FALSE, unlinkOk |-> FALSE,
     query |-> "none", idx |-> "none", chunks |-> <<>>,
     ui_rect_called |-> FALSE, ui_rect |-> NoPath, email_attachments |-> {}]

----------------------------------------------------------------------------
\* Document Registrar (UI)

\* the destination without the "if dest.exists()" branch
UploadDest_noCheck(d, stem, ext, t) == mkpath(CONTRACT_DIR, stem, ext)

\* dest = CONTRACTS_DIR / uploaded.name, or base_ts.ext when that exists
UploadDest(d, stem, ext, t) ==
    IF exists(d, mkpath(CONTRACT_DIR, stem, ext))
    THEN mkpath(CONTRACT_DIR, Append(stem, <<"TS", t>>), ext)
    ELSE mkpath(CONTRACT_DIR, stem, ext)

\* _get_file_path: current_version_path, else path, of the entry the manifest
\* file holds under key; "" when it holds none
get_file_path(file, key) ==
    LET item == load_contract_manifest(file)[key]
    IN  IF key \notin DOMAIN load_contract_manifest(file) THEN NoPath
        ELSE IF item.current_version_path # NoPath THEN item.current_version_path
        ELSE item.path

\* Dashboard upload: _save_uploaded_file, then _register_contract; the upload
\* becomes the active contract of the session
UploadAndRegister(stem, ext, content, saveOk) ==
    LET dest == UploadDest(disk, stem, ext, now)
        manifest == load_contract_manifest(contract_manifest)
        key == contract_id(dest)
    IN  /\ disk' = write_file(disk, dest, content)
        /\ contract_manifest' =
              save_json(contract_manifest, put(manifest, key, NewRecord(dest)), saveOk)
        /\ session_state' = [active_contract_key |-> key,
                             active_contract_path |-> get_file_path(contract_manifest', key)]
        /\ last' = [NoResult EXCEPT !.op = "upload", !.cid = key, !.dest = dest,
                                    !.outcome = "registered", !.saved = saveOk]
        /\ UNCHANGED <<reg_manifest, now, RAG_AVAILABLE, torn_writes, proc, chatbot>>

Upload ==
    \E n \in BaseNames, ext \in Exts, content \in UploadContents, saveOk \in BOOLEAN :
        UploadAndRegister(<< <<n, 0>> >>, ext, content, saveOk)

\* st.file_uploader(..., type=["pdf", "txt", "md"])
UPLOAD_TYPES == {"pdf", "txt", "md"}

\* an upload of a file of any accepted type
UploadAny ==
    \E n \in BaseNames, ext \in UPLOAD_TYPES, content \in UploadContents,
       saveOk \in BOOLEAN :
        UploadAndRegister(<< <<n, 0>> >>, ext, content, saveOk)

----------------------------------------------------------------------------
\* Document Registrar (regupdate.py)

\* "with open(p, 'rb') as fsrc, open(dest, 'wb') as fdst: fdst.write(fsrc.read())":
\* dest is truncated when it is opened, before the source is read
CopyFile(d, p, dest) ==
    LET truncated == write_file(d, dest, "Empty")
    IN  write_file(truncated, dest, truncated[p])

RegisterDest(p) == mkpath(CONTRACT_DIR, p.stem, p.ext)

register_contract_from_path(p, copyOk, saveOk) ==
    LET dest == RegisterDest(p)
        cid == contract_id(p)
        manifest == load_json(contract_manifest)
    IN  IF ~exists(disk, p)
        THEN /\ last' = [NoResult EXCEPT !.op = "register", !.cid = cid, !.src = p,
                                         !.outcome = "File not found"]
             /\ UNCHANGED <<disk, contract_manifest, reg_manifest, now, RAG_AVAILABLE, torn_writes, proc, chatbot,
                            session_state>>
        ELSE IF ~copyOk
        THEN /\ last' = [NoResult EXCEPT !.op = "register", !.cid = cid, !.src = p,
                                         !.dest = dest, !.outcome = "Failed to copy"]
             /\ UNCHANGED <<disk, contract_manifest, reg_manifest, now, RAG_AVAILABLE, torn_writes, proc, chatbot,
                            session_state>>
        ELSE /\ disk' = CopyFile(disk, p, dest)
             /\ contract_manifest' =
                   save_json(contract_manifest, put(manifest, cid, NewRecord(dest)), saveOk)
             /\ last' = [NoResult EXCEPT !.op = "register", !.cid = cid, !.src = p,
                                         !.dest = dest, !.outcome = "Registered contract",
                                         !.saved = saveOk]
             /\ UNCHANGED <<reg_manifest, now, RAG_AVAILABLE, torn_writes, proc, chatbot, session_state>>

\* the paths a caller names: a file outside managed storage, a file already in
\* docs/contracts, or a path that does not exist
SourcePaths ==
    {q \in DOMAIN disk : q.dir \in {OUTSIDE_DIR, CONTRACT_DIR}}
        \cup {mkpath(OUTSIDE_DIR, << <<"b", 0>> >>, "txt")}

Register ==
    \E p \in SourcePaths, copyOk \in BOOLEAN, saveOk \in BOOLEAN :
        register_contract_from_path(p, copyOk, saveOk)

----------------------------------------------------------------------------
\* Regulation Registrar

REG_SNAPSHOTS_DIR == "reg_snapshots"

\* the summary each fetcher returns when its download or extraction fails
FallbackText ==
    [EU_GDPR |-> "General Data Protection Regulation (EU) 2016/679 - Summary text.",
     IN_DPDP |-> "The Digital Personal Data Protection Act, 2023 - Summary text.",
     IN_SPDI_RULES |-> "SPDI Rules under Indian IT Act - Summary text."]

\* a fetcher that returns no text for a source it could not read
fetch_text_empty(rid, ok) == IF ok THEN "fetched text" ELSE ""

\* fetch_gdpr_text, fetch_dpdp_text, fetch_spdi_text
fetch_text(rid, ok) == IF ok THEN "fetched text" ELSE FallbackText[rid]

\* one version token for the batch: ts_version = utc_timestamp()
fetch_all_regulations(t, fetched) ==
    [rid \in RegIds |-> [version |-> t, text |-> fetch_text(rid, fetched[rid])]]

\* build_regulations_snapshot_pdf: REG_SNAPSHOTS_DIR / f"REGULATIONS_SNAPSHOT_{ts}.pdf"
SnapshotPath(t) == mkpath(REG_SNAPSHOTS_DIR, << <<"REGULATIONS_SNAPSHOT", t>> >>, "pdf")

\* The snapshot PDF and the log PDFs are written to directories no operation
\* reads; they are not kept in disk.
register_regulations(fetched, saveOk) ==
    LET reg_data_existing == load_json(reg_manifest)
        new_regs == fetch_all_regulations(now, fetched)
        snapshot_pdf == SnapshotPath(now)
        updated == [rid \in (DOMAIN reg_data_existing) \cup RegIds |->
                       IF rid \in RegIds
                       THEN [version |-> new_regs[rid].version,
                             snapshot_pdf |-> snapshot_pdf,
                             text |-> new_regs[rid].text]
                       ELSE reg_data_existing[rid]]
    IN  /\ reg_manifest' = save_json(reg_manifest, updated, saveOk)
        /\ last' = [NoResult EXCEPT !.op = "regulations", !.outcome = "Updated regulation",
                                    !.saved = saveOk, !.fetched = fetched]
        /\ UNCHANGED <<disk, contract_manifest, now, RAG_AVAILABLE, torn_writes, proc, chatbot,
                       session_state>>

\* every source answers
FetchRegulations ==
    \E saveOk \in BOOLEAN : register_regulations([rid \in RegIds |-> TRUE], saveOk)

\* any source may fail to download or to extract
FetchRegulationsDegraded ==
    \E fetched \in [RegIds -> BOOLEAN], saveOk \in BOOLEAN :
        register_regulations(fetched, saveOk)

----------------------------------------------------------------------------
\* Risk detection.  A text is a sequence of characters.

RISK_KEYWORDS ==
    [high |->
        << <<"n", "o", " ", "d", "a", "t", "a", " ", "p", "r", "o", "t", "e", "c", "t", "i", "o", "n">>,
          <<"n", "o", " ", "b", "r", "e", "a", "c", "h", " ", "n", "o", "t", "i", "f", "i", "c", "a", "t", "i", "o", "n">>,
          <<"n", "o", " ", "c", "o", "n", "f", "i", "d", "e", "n", "t", "i", "a", "l", "i", "t", "y">>,
          <<"p", "h", "i", " ", "w", "i", "t", "h", "o", "u", "t", " ", "s", "a", "f", "e", "g", "u", "a", "r", "d", "s">> >>,
     medium |->
        << <<"l", "i", "m", "i", "t", "e", "d", " ", "l", "i", "a", "b", "i", "l", "i", "t", "y">>,
          <<"d", "a", "t", "a", " ", "r", "e", "t", "e", "n", "t", "i", "o", "n", " ", "u", "n", "s", "p", "e", "c", "i", "f", "i", "e", "d">>,
          <<"i", "n", "d", "e", "m", "n", "i", "t", "y", " ", "c", "a", "p", "p", "e", "d">> >>,
     low |->
        << <<"d", "i", "s", "p", "u", "t", "e", " ", "r", "e", "s", "o", "l", "u", "t", "i", "o", "n">>,
          <<"n", "o", "t", "i", "c", "e", " ", "p", "e", "r", "i", "o", "d">>,
          <<"a", "u", "d", "i", "t">> >>]

\* the order in which the dict is walked
RiskLevels == <<"high", "medium", "low">>

UpperToLower ==
    ("A" :> "a") @@ ("B" :> "b") @@ ("C" :> "c") @@ ("D" :> "d") @@ ("E" :> "e") @@ ("F" :> "f") @@
    ("G" :> "g") @@ ("H" :> "h") @@ ("I" :> "i") @@ ("J" :> "j") @@ ("K" :> "k") @@ ("L" :> "l") @@
    ("M" :> "m") @@ ("N" :> "n") @@ ("O" :> "o") @@ ("P" :> "p") @@ ("Q" :> "q") @@ ("R" :> "r") @@
    ("S" :> "s") @@ ("T" :> "t") @@ ("U" :> "u") @@ ("V" :> "v") @@ ("W" :> "w") @@ ("X" :> "x") @@
    ("Y" :> "y") @@ ("Z" :> "z")

\* a text taken as it is written
lower_asis(text) == text

\* str.lower()
lower(text) == [i \in 1..Len(text) |->
                  IF text[i] \in DOMAIN UpperToLower THEN UpperToLower[text[i]] ELSE text[i]]

\* "kw in t"
contains(t, kw) ==
    \E i \in 1..(Len(t) + 1 - Len(kw)) : SubSeq(t, i, i + Len(kw) - 1) = kw

\* the inner loop: the keywords of one level found in t, in the order of the list
findings_of(level, t) ==
    LET hits == SelectSeq(RISK_KEYWORDS[level], LAMBDA kw : contains(t, kw))
    IN  [i \in 1..Len(hits) |-> <<level, hits[i]>>]

detect_risks(text) ==
    IF text = <<>> THEN <<>>
    ELSE LET t == lower(text)
         IN  findings_of(RiskLevels[1], t) \o findings_of(RiskLevels[2], t)
                 \o findings_of(RiskLevels[3], t)

\* pieces of contract text
Fragments ==
    {<<"N", "o", " ", "D", "a", "t", "a", " ", "P", "r", "o", "t", "e", "c", "t", "i", "o", "n">>,
     <<"N", "O", " ", "D", "A", "T", "A", " ">>,
     <<"p", "r", "o", "t", "e", "c", "t", "i", "o", "n">>,
     <<"A", "u", "d", "i", "t">>,
     <<"o", "r", " ">>,
     <<"l", "i", "m", "i", "t", "e", "d", " ", "l", "i", "a", "b", "i", "l", "i", "t", "y">>,
     <<"x">>}

RECURSIVE Flatten(_)
Flatten(pieces) == IF pieces = <<>> THEN <<>> ELSE Head(pieces) \o Flatten(Tail(pieces))

\* the texts of up to MaxFragments pieces
Texts == {Flatten(pieces) : pieces \in UNION {[1..n -> Fragments] : n \in 0..MaxFragments}}

\* the call on the text at hand
DetectRisks ==
    /\ last.op = "none"
    /\ last' = [last EXCEPT !.op = "detect_risks", !.findings = detect_risks(last.text)]
    /\ UNCHANGED <<disk, contract_manifest, reg_manifest, now, RAG_AVAILABLE,
                   torn_writes, proc, steps, chatbot, session_state>>

----------------------------------------------------------------------------
\* Mailer

\* the filter that lets every path through
valid_files_unfiltered(d, attachments) == attachments

\* "if p.exists() and p.stat().st_size > 0: valid_files.append(p)"
valid_files(d, attachments) == {p \in attachments : exists(d, p) /\ d[p] # "Empty"}

\* What is attached and what becomes of the SMTP send: "none" when the mailer
\* returns before it, "sent", or "failed" (caught and printed inside the mailer).
\* The call itself may raise ("raise": nothing is sent).
send_compliance_update_email(d, attachments, answer) ==
    IF answer = "raise" \/ valid_files(d, attachments) = {}
    THEN [attached |-> {}, smtp |-> IF answer = "raise" THEN "raise" ELSE "none"]
    ELSE [attached |-> valid_files(d, attachments), smtp |-> answer]

MailAnswers == {"sent", "failed", "raise"}

\* the paths a caller hands over: files on the disk, and a report that has
\* been removed since its path was taken
AttachmentPaths ==
    (DOMAIN disk) \cup {mkpath(SUGGESTIONS_DIR, << <<"a", 0>>, <<"SUGGESTIONS", 0>> >>, "pdf")}

AttachmentLists == {S \in SUBSET AttachmentPaths : Cardinality(S) <= MaxAttachments}

\* a call of the mailer with any list of paths
MailerCall ==
    \E attachments \in AttachmentLists, answer \in MailAnswers :
        LET mail == send_compliance_update_email(disk, attachments, answer)
        IN  /\ last' = [NoResult EXCEPT !.op = "mailer", !.mailCalled = TRUE,
                                        !.attachments = attachments,
                                        !.mailed = mail.attached, !.smtp = mail.smtp]
            /\ UNCHANGED <<disk, contract_manifest, reg_manifest, now, RAG_AVAILABLE,
                           torn_writes, proc, chatbot, session_state>>

\* the reports Run Analysis left in st.session_state.last_email_attachments
\* (_email_ready is set only when there is one)
SessionAttachments ==
    {S \in AttachmentLists :
        S # {} /\ \A p \in S : p.dir \in {SUGGESTIONS_DIR, CONTRACT_VERSIONS_DIR}}

\* Analysis page, "Send Email" with a recipient entered
SendEmail ==
    \E session \in SessionAttachments, answer \in MailAnswers :
        LET valid_paths == {p \in session : exists(disk, p)}
            mail == send_compliance_update_email(disk, valid_paths, answer)
        IN  /\ last' =
                  IF valid_paths = {}
                  THEN [NoResult EXCEPT !.op = "send_email",
                                        !.outcome = "No valid attachments found"]
                  ELSE [NoResult EXCEPT !.op = "send_email", !.mailCalled = TRUE,
                                        !.attachments = valid_paths,
                                        !.mailed = mail.attached, !.smtp = mail.smtp,
                                        !.outcome = IF mail.smtp = "raise"
                                                    THEN "Email sending failed"
                                                    ELSE "Email sent successfully"]
            /\ UNCHANGED <<disk, contract_manifest, reg_manifest, now, RAG_AVAILABLE,
                           torn_writes, proc, chatbot, session_state>>

----------------------------------------------------------------------------
\* Version Orchestrator

\* cpath = m.get("current_version_path") or m.get("path")
InputPath(m) ==
    IF m.current_version_path # NoPath THEN m.current_version_path ELSE m.path

\* the input check without Path(cpath).exists()
InputResolves_unchecked(d, cpath) == cpath # NoPath

\* "if not cpath or not Path(cpath).exists()" is the negation of this
InputResolves(d, cpath) == cpath # NoPath /\ exists(d, cpath)

\* a check that is content with the file being there
HasText_any(d, p, extractOk) == exists(d, p)

\* extract_text(path).strip() is non-empty: the file exists, holds text, and the
\* reader did not fail (every failure is caught and gives "")
HasText(d, p, extractOk) == exists(d, p) /\ d[p] # "Empty" /\ extractOk

\* save_text_artifact: SUGGESTIONS_DIR / f"{cid}_SUGGESTIONS_{ts}.pdf"
SuggestionsPath(cid, t) ==
    mkpath(SUGGESTIONS_DIR, Append(cid, <<"SUGGESTIONS", t>>), "pdf")

\* save_rectified_as_pdf: CONTRACT_VERSIONS_DIR / f"{stem of the input}_RECTIFIED_{ts}.pdf"
RectifiedPath(cpath, t) ==
    mkpath(CONTRACT_VERSIONS_DIR, Append(cpath.stem, <<"RECTIFIED", t>>), "pdf")

\* the record when the suggestions link is not set before the first save
WithSuggestions_dropped(m, suggestions_pdf) == m

\* m["last_suggestions_pdf"] = suggestions_pdf
WithSuggestions(m, suggestions_pdf) == [m EXCEPT !.last_suggestions_pdf = suggestions_pdf]

\* "if RAG_AVAILABLE and auto_apply"
RunsRectifier(available, auto_apply) == available /\ auto_apply

\* run_rectification_pipeline: "" when the input is missing or nothing was
\* generated, else the path of the PDF it wrote; it may also raise
run_rectification_pipeline(d, file_path, out, t) ==
    IF ~exists(d, file_path) \/ out # "path"
    THEN [disk |-> d, path |-> NoPath]
    ELSE [disk |-> write_file(d, RectifiedPath(file_path, t), "Rectified"),
          path |-> RectifiedPath(file_path, t)]

\* "if suggestions_pdf: ... if rectified_pdf_path: files_to_send.append(...)"
FilesToSend(suggestions_pdf, rectified_pdf_path) ==
    {p \in {suggestions_pdf, rectified_pdf_path} : p # NoPath}

\* a mail call whose exception is not caught ends the pass
AfterMail_uncaught(smtp) == IF smtp = "raise" THEN "raised" ELSE "continue"

\* "try: send_compliance_update_email(...) except Exception as e: print(...)":
\* the pass goes on whatever the mail call did
AfterMail(smtp) == "continue"

\* the swap without its "if rectified_pdf_path:" guard
SwapNeeded_always(rectified_pdf_path) == TRUE

\* "if rectified_pdf_path:" (None and "" are both false)
SwapNeeded(rectified_pdf_path) == rectified_pdf_path # NoPath

\* the swap that stamps last_updated and forgets current_version_path
SwapRecord_keepsCurrent(m, rectified_pdf_path, t) == [m EXCEPT !.last_updated = t]

\* m["current_version_path"] = str(rectified_pdf_path); m["last_updated"] = utc_now_iso()
SwapRecord(m, rectified_pdf_path, t) ==
    [m EXCEPT !.current_version_path = rectified_pdf_path, !.last_updated = t]

\* the delete condition without "old_version_path != original_path"
ShouldDeleteOld_noOriginalCheck(old_version_path, original_path, rectified_pdf_path) ==
    /\ old_version_path # NoPath
    /\ old_version_path # rectified_pdf_path

\* "if old_version_path and old_version_path != original_path
\*      and old_version_path != str(rectified_pdf_path)"
ShouldDeleteOld(old_version_path, original_path, rectified_pdf_path) ==
    /\ old_version_path # NoPath
    /\ old_version_path # original_path
    /\ old_version_path # rectified_pdf_path

\* an old version that is never removed
RemoveOld_kept(d, old_version_path, unlinkOk) == d

\* Path(old_version_path).unlink() inside try/except: a failure is printed
RemoveOld(d, old_version_path, unlinkOk) ==
    IF unlinkOk /\ exists(d, old_version_path) THEN unlink(d, old_version_path) ELSE d

\* what a pass that returns early leaves behind: nothing but its outcome
EarlyReturn(cid, outcome, cpath) ==
    [disk |-> disk, manifest |-> contract_manifest,
     last |-> [NoResult EXCEPT !.op = "apply", !.cid = cid, !.outcome = outcome,
                               !.cpath = cpath]]

\* lines 456-531: suggestions, rectification, mail, swap
AnalyseAndSwap(cid, auto_apply, contract_manifests, m, cpath, in) ==
    LET suggestions_pdf == SuggestionsPath(cid, now)
        disk1 == write_file(disk, suggestions_pdf, "Suggestions")
        m1 == WithSuggestions(m, suggestions_pdf)
        manifests1 == put(contract_manifests, cid, m1)
        file1 == save_json(contract_manifest, manifests1, in.suggSaveOk)
        called == RunsRectifier(RAG_AVAILABLE, auto_apply)
        rag == IF called /\ in.rect # "raise"
               THEN run_rectification_pipeline(disk1, cpath, in.rect, now)
               ELSE [disk |-> disk1, path |-> NoPath]
        rectified_pdf_path == rag.path
        files_to_send == FilesToSend(suggestions_pdf, rectified_pdf_path)
        mail == IF files_to_send # {}
                THEN send_compliance_update_email(rag.disk, files_to_send, in.mail)
                ELSE [attached |-> {}, smtp |-> "none"]
        old_version_path == m1.current_version_path
        original_path == m1.path
        m2 == SwapRecord(m1, rectified_pdf_path, now)
        file2 == save_json(file1, put(manifests1, cid, m2), in.swapSaveOk)
        delete == ShouldDeleteOld(old_version_path, original_path, rectified_pdf_path)
        disk2 == IF delete THEN RemoveOld(rag.disk, old_version_path, in.unlinkOk) ELSE rag.disk
        seen == load_json(file1)
        result == [NoResult EXCEPT !.op = "apply", !.cid = cid, !.outcome = "Completed",
                                   !.cpath = cpath, !.old = old_version_path,
                                   !.orig = original_path, !.sugg = suggestions_pdf,
                                   !.rect = rectified_pdf_path, !.rectCalled = called,
                                   !.mailCalled = files_to_send # {},
                                   !.attachments = files_to_send,
                                   !.mailed = mail.attached, !.smtp = mail.smtp,
                                   !.suggSaved = in.suggSaveOk,
                                   !.storeAtRectify =
                                       IF cid \in DOMAIN seen
                                       THEN seen[cid].last_suggestions_pdf ELSE NoPath]
    IN  IF AfterMail(mail.smtp) = "raised"
        THEN [disk |-> rag.disk, manifest |-> file1,
              last |-> [result EXCEPT !.outcome = "raised"]]
        ELSE IF SwapNeeded(rectified_pdf_path)
        THEN [disk |-> disk2, manifest |-> file2,
              last |-> [result EXCEPT !.swapSaved = in.swapSaveOk, !.unlinkTried = delete,
                                      !.unlinkOk = delete /\ in.unlinkOk]]
        ELSE [disk |-> rag.disk, manifest |-> file1, last |-> result]

\* the early returns without the look at the regulation store
EarlyOutcome_noRegCheck(cid, extractOk) ==
    LET contract_manifests == load_json(contract_manifest)
        cpath == InputPath(contract_manifests[cid])
    IN  IF cid \notin DOMAIN contract_manifests THEN "No such contract"
        ELSE IF ~InputResolves(disk, cpath) THEN "Contract file missing"
        ELSE IF ~HasText(disk, cpath, extractOk) THEN "Contract text could not be extracted"
        ELSE "none"

\* lines 438-454: the outcome of a pass that returns before it writes
\* anything, "none" for a pass that goes on
EarlyOutcome(cid, extractOk) ==
    LET contract_manifests == load_json(contract_manifest)
        cpath == InputPath(contract_manifests[cid])
        reg_manifests == load_json(reg_manifest)
    IN  IF cid \notin DOMAIN contract_manifests THEN "No such contract"
        ELSE IF ~InputResolves(disk, cpath) THEN "Contract file missing"
        ELSE IF ~HasText(disk, cpath, extractOk) THEN "Contract text could not be extracted"
        ELSE IF DOMAIN reg_manifests = {} THEN "No regulations registered"
        ELSE "none"

apply_updates_to_contract(cid, auto_apply, in) ==
    LET contract_manifests == load_json(contract_manifest)
        m == contract_manifests[cid]
        cpath == IF cid \in DOMAIN contract_manifests THEN InputPath(m) ELSE NoPath
        early == EarlyOutcome(cid, in.extractOk)
    IN  IF early # "none"
        THEN EarlyReturn(cid, early, cpath)
        ELSE IF ~in.renderOk
        THEN EarlyReturn(cid, "raised", cpath)
        ELSE AnalyseAndSwap(cid, auto_apply, contract_manifests, m, cpath, in)

\* what the collaborators and the file system answer during one pass
AllPassInputs ==
    [extractOk : BOOLEAN, renderOk : BOOLEAN, suggSaveOk : BOOLEAN,
     rect : {"raise", "empty", "path"}, mail : MailAnswers,
     swapSaveOk : BOOLEAN, unlinkOk : BOOLEAN]

\* an answer that is never asked for is fixed, so that no pass is listed twice
PassInputs(rectifies) ==
    {in \in AllPassInputs :
        /\ (~in.extractOk \/ ~in.renderOk) =>
               in.suggSaveOk /\ in.rect = "empty" /\ in.mail = "sent"
        /\ ~in.extractOk => in.renderOk
        /\ ~rectifies => in.rect = "empty"
        /\ in.rect # "path" => in.swapSaveOk /\ in.unlinkOk}

\* a pass that returns before line 456 asks for the extractor's answer alone
Asked(cid, in) ==
    EarlyOutcome(cid, TRUE) # "none" =>
        /\ in.renderOk /\ in.suggSaveOk /\ in.swapSaveOk /\ in.unlinkOk
        /\ in.rect = "empty"
        /\ in.mail = "sent"

\* the ids a caller can name: the ones written to the manifest file (the UI keeps
\* its active key in the session) and one that was never registered
CallerIds == (DOMAIN contract_manifest.data) \cup {<< <<"b", 0>> >>}

ApplyUpdates ==
    \E cid \in CallerIds, auto_apply \in BOOLEAN :
    \E in \in PassInputs(RunsRectifier(RAG_AVAILABLE, auto_apply)) :
        LET r == apply_updates_to_contract(cid, auto_apply, in)
        IN  /\ Asked(cid, in)
            /\ Len(r.last.rect.stem) <= MaxStem
            /\ disk' = r.disk
            /\ contract_manifest' = r.manifest
            /\ last' = r.last
            /\ UNCHANGED <<reg_manifest, now, RAG_AVAILABLE, torn_writes, proc, chatbot, session_state>>

----------------------------------------------------------------------------
\* Analysis & Rectification page (app.py)

\* the page calling the orchestrator with rectification enabled
RunAnalysisAutoApply_on == TRUE

\* "regupdate.apply_updates_to_contract(cid=selected_key, auto_apply=False)"
RunAnalysisAutoApply == FALSE

\* "Run Analysis & Rectify": the orchestrator's pass inside try/except, the
\* manifest read again for last_suggestions_pdf, then the rectifier called by
\* the page itself on the session's contract path; nothing of it is written to
\* the manifest.  The page stops before the button without an active contract.
RunAnalysis ==
    \E in \in PassInputs(RunsRectifier(RAG_AVAILABLE, RunAnalysisAutoApply)),
       uiRect \in {"raise", "empty", "path"} :
        LET selected_key == session_state.active_contract_key
            contract_path == session_state.active_contract_path
            r == apply_updates_to_contract(selected_key, RunAnalysisAutoApply, in)
            manifest_data == load_contract_manifest(r.manifest)
            suggestions_pdf ==
                IF r.last.outcome # "raised" /\ selected_key \in DOMAIN manifest_data
                THEN manifest_data[selected_key].last_suggestions_pdf
                ELSE NoPath
            rag == IF RAG_AVAILABLE /\ uiRect # "raise"
                   THEN run_rectification_pipeline(r.disk, contract_path, uiRect, now)
                   ELSE [disk |-> r.disk, path |-> NoPath]
            attachments == {p \in {rag.path, suggestions_pdf} :
                               p # NoPath /\ exists(rag.disk, p)}
        IN  /\ selected_key # <<>>
            /\ contract_path # NoPath
            /\ ~RAG_AVAILABLE => uiRect = "empty"
            /\ Asked(selected_key, in)
            /\ Len(r.last.rect.stem) <= MaxStem
            /\ disk' = rag.disk
            /\ contract_manifest' = r.manifest
            /\ last' = [r.last EXCEPT !.op = "run_analysis", !.src = contract_path,
                                      !.ui_rect_called = RAG_AVAILABLE,
                                      !.ui_rect = rag.path,
                                      !.email_attachments = attachments]
            /\ UNCHANGED <<reg_manifest, now, RAG_AVAILABLE, torn_writes, proc, chatbot,
                           session_state>>

----------------------------------------------------------------------------
\* Two callers in apply_updates_to_contract at once.  A pass is cut at its
\* accesses to the manifest file and to the disk: the load and the input check,
\* the suggestions write and first save, the rectifier, the swap save, the
\* unlink.  Every collaborator answers and every write goes through.

ProcIds == {1, 2}

\* a caller before its call
IdlePass ==
    [pc |-> "idle", cid |-> <<>>, auto_apply |-> FALSE, contract_manifests |-> <<>>,
     cpath |-> NoPath, sugg |-> NoPath, rect |-> NoPath, old |-> NoPath,
     deleted |-> NoPath, outcome |-> "none"]

\* a pass that reads the manifest again before it writes it
ViewToSave_reloaded(contract_manifests, file) == load_json(file)

\* what a pass writes is the mapping it loaded at line 438, with its own changes
ViewToSave(contract_manifests, file) == contract_manifests

\* lines 438-454
PassLoad(p) ==
    \E cid \in DOMAIN load_json(contract_manifest), auto_apply \in BOOLEAN :
        LET contract_manifests == load_json(contract_manifest)
            cpath == InputPath(contract_manifests[cid])
            early == EarlyOutcome(cid, TRUE)
        IN  /\ proc[p].pc = "idle"
            /\ Len(cpath.stem) < MaxStem
            /\ proc' = [proc EXCEPT ![p] =
                           IF early # "none"
                           THEN [@ EXCEPT !.pc = "done", !.cid = cid, !.outcome = early,
                                          !.cpath = cpath]
                           ELSE [@ EXCEPT !.pc = "loaded", !.cid = cid,
                                          !.auto_apply = auto_apply,
                                          !.contract_manifests = contract_manifests,
                                          !.cpath = cpath]]
            /\ UNCHANGED <<disk, contract_manifest, reg_manifest, now, RAG_AVAILABLE,
                           torn_writes, last, steps, chatbot, session_state>>

\* lines 456-473
PassSuggest(p) ==
    LET my == proc[p]
        view == ViewToSave(my.contract_manifests, contract_manifest)
        suggestions_pdf == SuggestionsPath(my.cid, now)
        manifests1 == put(view, my.cid, WithSuggestions(view[my.cid], suggestions_pdf))
    IN  /\ my.pc = "loaded"
        /\ disk' = write_file(disk, suggestions_pdf, "Suggestions")
        /\ contract_manifest' = save_json(contract_manifest, manifests1, TRUE)
        /\ proc' = [proc EXCEPT ![p] = [@ EXCEPT !.pc = "suggested",
                                                 !.contract_manifests = manifests1,
                                                 !.sugg = suggestions_pdf]]
        /\ UNCHANGED <<reg_manifest, now, RAG_AVAILABLE, torn_writes, last, steps, chatbot,
                       session_state>>

\* lines 475-504
PassRectify(p) ==
    LET my == proc[p]
        rag == IF RunsRectifier(RAG_AVAILABLE, my.auto_apply)
               THEN run_rectification_pipeline(disk, my.cpath, "path", now)
               ELSE [disk |-> disk, path |-> NoPath]
    IN  /\ my.pc = "suggested"
        /\ disk' = rag.disk
        /\ proc' = [proc EXCEPT ![p] =
                       [@ EXCEPT !.pc = IF SwapNeeded(rag.path) THEN "rectified" ELSE "done",
                                 !.rect = rag.path,
                                 !.outcome = IF SwapNeeded(rag.path) THEN "none"
                                             ELSE "Completed"]]
        /\ UNCHANGED <<contract_manifest, reg_manifest, now, RAG_AVAILABLE, torn_writes,
                       last, steps, chatbot, session_state>>

\* lines 509-517
PassSwap(p) ==
    LET my == proc[p]
        view == ViewToSave(my.contract_manifests, contract_manifest)
        m == view[my.cid]
        manifests2 == put(view, my.cid, SwapRecord(m, my.rect, now))
    IN  /\ my.pc = "rectified"
        /\ contract_manifest' = save_json(contract_manifest, manifests2, TRUE)
        /\ proc' = [proc EXCEPT ![p] = [@ EXCEPT !.pc = "swapped",
                                                 !.contract_manifests = manifests2,
                                                 !.old = m.current_version_path]]
        /\ UNCHANGED <<disk, reg_manifest, now, RAG_AVAILABLE, torn_writes, last, steps, chatbot,
                       session_state>>

\* lines 522-531
PassUnlink(p) ==
    LET my == proc[p]
        original_path == my.contract_manifests[my.cid].path
        delete == ShouldDeleteOld(my.old, original_path, my.rect)
    IN  /\ my.pc = "swapped"
        /\ disk' = IF delete THEN RemoveOld(disk, my.old, TRUE) ELSE disk
        /\ proc' = [proc EXCEPT ![p] =
                       [@ EXCEPT !.pc = "done", !.outcome = "Completed",
                                 !.deleted = IF delete /\ exists(disk, my.old)
                                             THEN my.old ELSE NoPath]]
        /\ UNCHANGED <<contract_manifest, reg_manifest, now, RAG_AVAILABLE, torn_writes,
                       last, steps, chatbot, session_state>>

\* lines 513-517 when the write fails: save_json prints the error and the
\* pass goes on with the swap made in memory only
PassSwapFails(p) ==
    LET my == proc[p]
        view == ViewToSave(my.contract_manifests, contract_manifest)
        m == view[my.cid]
        manifests2 == put(view, my.cid, SwapRecord(m, my.rect, now))
    IN  /\ my.pc = "rectified"
        /\ contract_manifest' = save_json(contract_manifest, manifests2, FALSE)
        /\ proc' = [proc EXCEPT ![p] = [@ EXCEPT !.pc = "swapped",
                                                 !.contract_manifests = manifests2,
                                                 !.old = m.current_version_path]]
        /\ UNCHANGED <<disk, reg_manifest, now, RAG_AVAILABLE, torn_writes, last, steps,
                       chatbot, session_state>>

\* the process dies between two steps of its pass
PassCrash(p) ==
    /\ proc[p].pc \in {"loaded", "suggested", "rectified", "swapped"}
    /\ proc' = [proc EXCEPT ![p] = [@ EXCEPT !.pc = "crashed"]]
    /\ UNCHANGED <<disk, contract_manifest, reg_manifest, now, RAG_AVAILABLE, torn_writes,
                   last, steps, chatbot, session_state>>

\* no other caller is inside a pass
Alone(p) == \A q \in ProcIds \ {p} : proc[q].pc \in {"idle", "done", "crashed"}

\* the clock, while passes are under way
PassTick ==
    /\ now < MaxClock
    /\ now' = now + 1
    /\ UNCHANGED <<disk, contract_manifest, reg_manifest, RAG_AVAILABLE, torn_writes,
                   proc, last, steps, chatbot, session_state>>

----------------------------------------------------------------------------
\* Chatbot retrieval (chatbot.py).  An index is "None", "cached" or "built"; a
\* text is known by the file it was read from and its length in characters.

INDEX_TTL == 3600

\* chatbot.py right after its import: both optional imports succeeded and
\* nothing is cached.  INDEX_CACHE_TIME maps a resolved path to the time its
\* index was built (_INDEX_CACHE has the same keys).
NoChat == [rag |-> TRUE, regupdate |-> TRUE, INDEX_CACHE_TIME |-> <<>>]

\* "key in _INDEX_CACHE and time.time() - _INDEX_CACHE_TIME.get(key, 0) < INDEX_TTL"
Fresh(cache, key, t) == key \in DOMAIN cache /\ t - cache[key] < INDEX_TTL

\* None without a path or without rag; the cached index while it is fresh; else
\* a new index, cached, or None when reading or indexing raises
get_or_build_index(c, contract_path, t, buildOk) ==
    IF contract_path = NoPath \/ ~c.rag
    THEN [idx |-> "None", cache |-> c.INDEX_CACHE_TIME]
    ELSE IF Fresh(c.INDEX_CACHE_TIME, contract_path, t)
    THEN [idx |-> "cached", cache |-> c.INDEX_CACHE_TIME]
    ELSE IF buildOk
    THEN [idx |-> "built",
          cache |-> [k \in (DOMAIN c.INDEX_CACHE_TIME) \cup {contract_path} |->
                        IF k = contract_path THEN t ELSE c.INDEX_CACHE_TIME[k]]]
    ELSE [idx |-> "None", cache |-> c.INDEX_CACHE_TIME]

\* text[:2500]
head2500(len) == IF len < 2500 THEN len ELSE 2500

\* regupdate.extract_text as the chatbot sees it: "" for a missing or empty
\* file and on every failure, else the text (len characters)
chat_extract_text(d, p, len) == IF exists(d, p) /\ d[p] # "Empty" THEN len ELSE 0

\* a second step that gives up where the first one gave nothing
fallback_chunks_none(c, d, contract_path, len) == <<>>

\* step 2: "try: text = regupdate.extract_text(contract_path);
\* return [text[:2500]] if text else [] except: return []".  Without regupdate
\* the attribute access raises and is caught.
fallback_chunks(c, d, contract_path, len) ==
    IF ~c.regupdate THEN <<>>
    ELSE IF chat_extract_text(d, contract_path, len) = 0 THEN <<>>
    ELSE << [kind |-> "text", of |-> contract_path,
             len |-> head2500(chat_extract_text(d, contract_path, len))] >>

\* step 1 gives the retriever's chunks when there is an index and the
\* retriever returns some; an exception of the retriever is swallowed
retrieve_context_chunks(c, d, contract_path, idx, retr, len) ==
    IF contract_path = NoPath THEN <<>>
    ELSE IF idx # "None" /\ retr = "chunks"
    THEN << [kind |-> "semantic", of |-> contract_path, len |-> 1] >>
    ELSE fallback_chunks(c, d, contract_path, len)

Queries == {"what is the notice period", ""}

\* the lengths of the text the extractor reads
TextLens == {0, 1, 2500, 2501}

\* the paths the chat is asked about: none, a file on the disk, a file that is gone
ChatPaths ==
    {NoPath} \cup (DOMAIN disk) \cup {mkpath(CONTRACT_DIR, << <<"b", 0>> >>, "pdf")}

Retrieve ==
    \E query \in Queries, contract_path \in ChatPaths, buildOk \in BOOLEAN,
       retr \in {"chunks", "empty", "raise"}, len \in TextLens :
        LET built == get_or_build_index(chatbot, contract_path, now,
                                        buildOk /\ exists(disk, contract_path))
        IN  /\ built.idx = "None" => retr = "empty"
            /\ (~exists(disk, contract_path) \/ disk[contract_path] = "Empty"
                   \/ ~chatbot.regupdate) => len = 0
            /\ chatbot' = [chatbot EXCEPT !.INDEX_CACHE_TIME = built.cache]
            /\ last' = [NoResult EXCEPT
                           !.op = "retrieve", !.outcome = "returned", !.query = query,
                           !.cpath = contract_path, !.idx = built.idx,
                           !.text = <<len>>,
                           !.chunks = retrieve_context_chunks(chatbot, disk, contract_path,
                                                              built.idx, retr, len)]
            /\ UNCHANGED <<disk, contract_manifest, reg_manifest, now, RAG_AVAILABLE,
                           torn_writes, proc, session_state>>

\* time passes between two questions: a moment, or the life of a cached index
ChatTick ==
    \E dt \in {1, INDEX_TTL} :
        /\ now' = now + dt
        /\ last' = [NoResult EXCEPT !.op = "tick"]
        /\ UNCHANGED <<disk, contract_manifest, reg_manifest, RAG_AVAILABLE, torn_writes,
                       proc, chatbot, session_state>>

----------------------------------------------------------------------------
\* the clock

Tick ==
    /\ now < MaxClock
    /\ now' = now + 1
    /\ last' = [NoResult EXCEPT !.op = "tick"]
    /\ UNCHANGED <<disk, contract_manifest, reg_manifest, RAG_AVAILABLE, torn_writes, proc, chatbot,
                   session_state>>

----------------------------------------------------------------------------

Init ==
    /\ disk = (mkpath(OUTSIDE_DIR, << <<"a", 0>> >>, "pdf") :> "B")
    /\ contract_manifest = [kind |-> "missing", data |-> <<>>]
    /\ reg_manifest = [kind |-> "missing", data |-> <<>>]
    /\ now = 1
    /\ RAG_AVAILABLE \in BOOLEAN
    /\ torn_writes = FALSE
    /\ proc = NoProcs
    /\ last = NoResult
    /\ steps = 0
    /\ chatbot = NoChat
    /\ session_state = NoSession

\* one more step, while the budget lasts
Count == steps < MaxSteps /\ steps' = steps + 1

Next ==
    \/ Count /\ Upload
    \/ Count /\ Register
    \/ Count /\ FetchRegulations
    \/ Count /\ ApplyUpdates
    \/ Count /\ Tick

Spec == Init /\ [][Next]_vars

\* The same operations on a file system where a failing manifest write fails in
\* json.dump, after open(path, "w") has truncated the file.
TornInit ==
    /\ disk = (mkpath(OUTSIDE_DIR, << <<"a", 0>> >>, "pdf") :> "B")
    /\ contract_manifest = [kind |-> "missing", data |-> <<>>]
    /\ reg_manifest = [kind |-> "missing", data |-> <<>>]
    /\ now = 1
    /\ RAG_AVAILABLE \in BOOLEAN
    /\ torn_writes = TRUE
    /\ proc = NoProcs
    /\ last = NoResult
    /\ steps = 0
    /\ chatbot = NoChat
    /\ session_state = NoSession

TornSpec == TornInit /\ [][Next]_vars

\* an entry of the regulation store written under another id
OTHER_REG == "OTHER_REG"

\* The regulation registrar alone.  The store it finds is empty, holds an entry
\* under another id, or holds that and an older entry of one of the three ids.
RegInit ==
    /\ disk = <<>>
    /\ contract_manifest = [kind |-> "missing", data |-> <<>>]
    /\ \E ids \in {{}, {OTHER_REG}, {OTHER_REG, "EU_GDPR"}} :
           reg_manifest =
               IF ids = {} THEN [kind |-> "missing", data |-> <<>>]
               ELSE [kind |-> "json",
                     data |-> [rid \in ids |->
                                  [version |-> 0, snapshot_pdf |-> SnapshotPath(0),
                                   text |-> "older text"]]]
    /\ now = 1
    /\ RAG_AVAILABLE \in BOOLEAN
    /\ torn_writes = FALSE
    /\ proc = NoProcs
    /\ last = NoResult
    /\ steps = 0
    /\ chatbot = NoChat
    /\ session_state = NoSession

RegNext ==
    \/ Count /\ FetchRegulationsDegraded
    \/ Count /\ Tick

RegSpec == RegInit /\ [][RegNext]_vars

\* Two callers, on a store with one contract whose current version is the
\* upload itself or the artifact of an earlier pass, and with regulations.
ConcInit ==
    /\ \E rectified \in BOOLEAN :
           LET orig == mkpath(CONTRACT_DIR, << <<"a", 0>> >>, "pdf")
               sugg == SuggestionsPath(<< <<"a", 0>> >>, 1)
               rect == RectifiedPath(orig, 1)
           IN  IF rectified
               THEN /\ disk = (orig :> "A") @@ (sugg :> "Suggestions") @@ (rect :> "Rectified")
                    /\ contract_manifest =
                          [kind |-> "json",
                           data |-> (<< <<"a", 0>> >> :>
                                        SwapRecord(WithSuggestions(NewRecord(orig), sugg),
                                                   rect, 1))]
               ELSE /\ disk = (orig :> "A")
                    /\ contract_manifest =
                          [kind |-> "json", data |-> (<< <<"a", 0>> >> :> NewRecord(orig))]
    /\ reg_manifest =
          [kind |-> "json",
           data |-> [rid \in RegIds |->
                        [version |-> 1, snapshot_pdf |-> SnapshotPath(1),
                         text |-> fetch_text(rid, TRUE)]]]
    /\ now = 1
    /\ RAG_AVAILABLE = TRUE
    /\ torn_writes = FALSE
    /\ proc = [p \in ProcIds |-> IdlePass]
    /\ last = NoResult
    /\ steps = 0
    /\ chatbot = NoChat
    /\ session_state = NoSession

ConcNext ==
    \/ \E p \in ProcIds : PassLoad(p)
    \/ \E p \in ProcIds : PassSuggest(p)
    \/ \E p \in ProcIds : PassRectify(p)
    \/ \E p \in ProcIds : PassSwap(p)
    \/ \E p \in ProcIds : PassUnlink(p)
    \/ PassTick

ConcSpec == ConcInit /\ [][ConcNext]_vars

\* detect_risks alone, on every text of Texts
RiskInit ==
    /\ disk = <<>>
    /\ contract_manifest = [kind |-> "missing", data |-> <<>>]
    /\ reg_manifest = [kind |-> "missing", data |-> <<>>]
    /\ now = 1
    /\ RAG_AVAILABLE = FALSE
    /\ torn_writes = FALSE
    /\ proc = NoProcs
    /\ \E text \in Texts : last = [NoResult EXCEPT !.text = text]
    /\ steps = 0
    /\ chatbot = NoChat
    /\ session_state = NoSession

RiskNext == DetectRisks

RiskSpec == RiskInit /\ [][RiskNext]_vars

\* The mail paths: one contract is uploaded (with text or as an empty file)
\* and the regulations are fetched; passes, Send Email and calls of the mailer.
MailInit ==
    /\ \E content \in {"A", "Empty"} :
           disk = (mkpath(CONTRACT_DIR, << <<"a", 0>> >>, "pdf") :> content)
    /\ contract_manifest =
          [kind |-> "json",
           data |-> (<< <<"a", 0>> >> :>
                        NewRecord(mkpath(CONTRACT_DIR, << <<"a", 0>> >>, "pdf")))]
    /\ reg_manifest =
          [kind |-> "json",
           data |-> [rid \in RegIds |->
                        [version |-> 1, snapshot_pdf |-> SnapshotPath(1),
                         text |-> fetch_text(rid, TRUE)]]]
    /\ now = 1
    /\ RAG_AVAILABLE \in BOOLEAN
    /\ torn_writes = FALSE
    /\ proc = NoProcs
    /\ last = NoResult
    /\ steps = 0
    /\ chatbot = NoChat
    /\ session_state = NoSession

\* one more step of the mail paths
MailCount == steps < MaxMailSteps /\ steps' = steps + 1

MailNext ==
    \/ MailCount /\ ApplyUpdates
    \/ MailCount /\ SendEmail
    \/ MailCount /\ MailerCall
    \/ MailCount /\ Tick

MailSpec == MailInit /\ [][MailNext]_vars

\* One caller after the other, each pass taken step by step; a pass may die
\* between two steps and its swap save may fail.
CrashNext ==
    \/ \E p \in ProcIds : Alone(p) /\ PassLoad(p)
    \/ \E p \in ProcIds : Alone(p) /\ PassSuggest(p)
    \/ \E p \in ProcIds : Alone(p) /\ PassRectify(p)
    \/ \E p \in ProcIds : Alone(p) /\ PassSwap(p)
    \/ \E p \in ProcIds : Alone(p) /\ PassSwapFails(p)
    \/ \E p \in ProcIds : Alone(p) /\ PassUnlink(p)
    \/ \E p \in ProcIds : Alone(p) /\ PassCrash(p)
    \/ PassTick

CrashSpec == ConcInit /\ [][CrashNext]_vars

\* The Dashboard page alone: uploads, and time passing between them.
UploadInit ==
    /\ disk = <<>>
    /\ contract_manifest = [kind |-> "missing", data |-> <<>>]
    /\ reg_manifest = [kind |-> "missing", data |-> <<>>]
    /\ now = 1
    /\ RAG_AVAILABLE = FALSE
    /\ torn_writes = FALSE
    /\ proc = NoProcs
    /\ last = NoResult
    /\ steps = 0
    /\ chatbot = NoChat
    /\ session_state = NoSession

\* one more step of the registrars
UploadCount == steps < MaxUploads /\ steps' = steps + 1

UploadNext ==
    \/ UploadCount /\ UploadAny
    \/ UploadCount /\ Tick

UploadSpec == UploadInit /\ [][UploadNext]_vars

\* Both registrars: uploads of any accepted type, and register_contract_from_path
\* on files that lie outside managed storage or inside it.
RegistrarInit ==
    /\ disk = (mkpath(OUTSIDE_DIR, << <<"a", 0>> >>, "pdf") :> "B")
                 @@ (mkpath(OUTSIDE_DIR, << <<"a", 0>> >>, "txt") :> "A")
    /\ contract_manifest = [kind |-> "missing", data |-> <<>>]
    /\ reg_manifest = [kind |-> "missing", data |-> <<>>]
    /\ now = 1
    /\ RAG_AVAILABLE = FALSE
    /\ torn_writes = FALSE
    /\ proc = NoProcs
    /\ last = NoResult
    /\ steps = 0
    /\ chatbot = NoChat
    /\ session_state = NoSession

RegistrarNext ==
    \/ UploadCount /\ UploadAny
    \/ UploadCount /\ Register
    \/ UploadCount /\ Tick

RegistrarSpec == RegistrarInit /\ [][RegistrarNext]_vars

\* The UI alone, with the regulations fetched: uploads and Run Analysis.
UIInit ==
    /\ disk = <<>>
    /\ contract_manifest = [kind |-> "missing", data |-> <<>>]
    /\ reg_manifest =
          [kind |-> "json",
           data |-> [rid \in RegIds |->
                        [version |-> 1, snapshot_pdf |-> SnapshotPath(1),
                         text |-> fetch_text(rid, TRUE)]]]
    /\ now = 1
    /\ RAG_AVAILABLE \in BOOLEAN
    /\ torn_writes = FALSE
    /\ proc = NoProcs
    /\ last = NoResult
    /\ steps = 0
    /\ chatbot = NoChat
    /\ session_state = NoSession

UINext ==
    \/ UploadCount /\ UploadAny
    \/ UploadCount /\ RunAnalysis
    \/ UploadCount /\ Tick

UISpec == UIInit /\ [][UINext]_vars

\* one more upload while passes are under way
RaceCount == steps < MaxRaceUploads /\ steps' = steps + 1

\* One pass at a time, taken step by step, while uploads are registered
\* through the UI in between its steps.
RaceNext ==
    \/ \E p \in ProcIds : Alone(p) /\ PassLoad(p)
    \/ \E p \in ProcIds : Alone(p) /\ PassSuggest(p)
    \/ \E p \in ProcIds : Alone(p) /\ PassRectify(p)
    \/ \E p \in ProcIds : Alone(p) /\ PassSwap(p)
    \/ \E p \in ProcIds : Alone(p) /\ PassUnlink(p)
    \/ RaceCount /\ Upload
    \/ PassTick

RaceSpec == ConcInit /\ [][RaceNext]_vars

\* The chat's retrieval on one stored contract (with text or empty), with or
\* without the two optional modules.
ChatInit ==
    /\ \E content \in {"A", "Empty"} :
           disk = (mkpath(CONTRACT_DIR, << <<"a", 0>> >>, "pdf") :> content)
    /\ contract_manifest = [kind |-> "missing", data |-> <<>>]
    /\ reg_manifest = [kind |-> "missing", data |-> <<>>]
    /\ now = 1
    /\ RAG_AVAILABLE = FALSE
    /\ torn_writes = FALSE
    /\ proc = NoProcs
    /\ last = NoResult
    /\ steps = 0
    /\ \E r \in BOOLEAN, u \in BOOLEAN :
           chatbot = [NoChat EXCEPT !.rag = r, !.regupdate = u]
    /\ session_state = NoSession

\* one more step of the chat
ChatCount == steps < MaxChatSteps /\ steps' = steps + 1

ChatNext ==
    \/ ChatCount /\ Retrieve
    \/ ChatCount /\ ChatTick

ChatSpec == ChatInit /\ [][ChatNext]_vars

----------------------------------------------------------------------------
\* Properties

\* the persisted Record Store, before and after a step
Store == load_json(contract_manifest)

StoreAfter == load_json(contract_manifest')

\* the files a step deletes
Gone == (DOMAIN disk) \ (DOMAIN disk')

\* the last step was a pass of apply_updates in which the rectifier returned a path
SuccessfulPass == last.op = "apply" /\ last.rect # NoPath

\* C1: across every pass of apply_updates, whatever its outcome, every record
\* keeps its 'path' field and the file at that path is not deleted.
C1_OriginalKept ==
    [][last'.op = "apply" =>
          \A cid \in DOMAIN Store :
              /\ cid \in DOMAIN StoreAfter
              /\ StoreAfter[cid].path = Store[cid].path
              /\ Store[cid].path \notin Gone]_vars

\* a second successful pass has deleted the intermediate version and the
\* original upload is still there
C1_Witness ==
    /\ SuccessfulPass
    /\ last.unlinkOk
    /\ ~exists(disk, last.old)
    /\ exists(disk, last.orig)
    /\ Store[last.cid].path = last.orig

C2_WitnessRetired ==
    /\ SuccessfulPass
    /\ last.swapSaved
    /\ last.old # last.orig
    /\ ~exists(disk, last.old)

\* C3: a pass deletes at most one file, which is the record's current_path as
\* it was before the pass and differs from original_path and from the new
\* artifact; no other step deletes any file.
C3_OnlyOldCurrentDeleted ==
    [][/\ Cardinality(Gone) <= 1
       /\ \A p \in Gone :
              /\ last'.op = "apply"
              /\ last'.cid \in DOMAIN Store
              /\ p = Store[last'.cid].current_version_path
              /\ p # Store[last'.cid].path
              /\ p # last'.rect]_vars

\* a pass has deleted the previous current file while a suggestions artifact
\* and the original upload stayed
C3_Witness ==
    /\ SuccessfulPass
    /\ last.unlinkOk
    /\ ~exists(disk, last.old)
    /\ exists(disk, last.sugg)
    /\ exists(disk, last.orig)
    /\ last.old # last.orig

\* C4: after a successful pass the persisted current_path names an existing file.
C4_CurrentResolvable ==
    SuccessfulPass =>
        /\ last.cid \in DOMAIN Store
        /\ exists(disk, Store[last.cid].current_version_path)

\* C5: a pass on a record whose input file is missing returns 'Contract file
\* missing', changes neither the store nor the disk, writes no suggestions
\* artifact and calls neither the rectifier nor the mailer.
C5_InputMissing ==
    [][(/\ last'.op = "apply"
        /\ last'.cid \in DOMAIN Store
        /\ ~exists(disk, InputPath(Store[last'.cid])))
       => /\ last'.outcome = "Contract file missing"
          /\ contract_manifest' = contract_manifest
          /\ disk' = disk
          /\ last'.sugg = NoPath
          /\ ~last'.rectCalled
          /\ ~last'.mailCalled]_vars

\* a pass has found its input file missing
C5_Witness ==
    /\ last.op = "apply"
    /\ last.outcome = "Contract file missing"
    /\ last.cid \in DOMAIN Store
    /\ ~exists(disk, InputPath(Store[last.cid]))

\* the pass got past input resolution and text extraction
PastExtraction ==
    /\ last.op = "apply"
    /\ last.outcome \notin {"No such contract", "Contract file missing",
                            "Contract text could not be extracted"}

C8_RegisterDisambiguates ==
    [][(/\ last'.op = "register"
        /\ last'.outcome = "Registered contract"
        /\ exists(disk, mkpath(CONTRACT_DIR, last'.src.stem, last'.src.ext)))
       => LET held == mkpath(CONTRACT_DIR, last'.src.stem, last'.src.ext)
          IN  /\ last'.dest # held
              /\ disk'[held] = disk[held]]_vars

\* a registration has just persisted its record
Registered ==
    /\ last.op \in {"upload", "register"}
    /\ last.outcome \in {"registered", "Registered contract"}
    /\ last.saved

\* C9: right after a registration that persisted its record, the record has
\* current_path = original_path = the destination, no suggestions path and
\* no last_updated; last_updated appears only in a pass that swaps the
\* current version of that record.
C9_FreshRecord ==
    /\ [](Registered =>
            /\ last.cid \in DOMAIN Store
            /\ exists(disk, last.dest)
            /\ last.dest.dir = CONTRACT_DIR
            /\ Store[last.cid] = [path |-> last.dest,
                                  current_version_path |-> last.dest,
                                  last_suggestions_pdf |-> NoPath,
                                  last_updated |-> 0])
    /\ [][\A cid \in DOMAIN StoreAfter :
              (/\ StoreAfter[cid].last_updated # 0
               /\ (cid \in DOMAIN Store => Store[cid].last_updated = 0))
              => /\ last'.op = "apply"
                 /\ last'.cid = cid
                 /\ last'.rect # NoPath
                 /\ StoreAfter[cid].current_version_path = last'.rect]_vars

\* a registration has replaced a record that had been through a swap
C9_Witness ==
    /\ Registered
    /\ Store[last.cid].last_updated = 0
    /\ \E p \in DOMAIN disk : p.dir = CONTRACT_VERSIONS_DIR /\ p.stem[1] = last.cid[1]

\* C10: a pass that reaches the rectification phase and gets no artifact from
\* it (rectifier unavailable, auto_apply false, rectifier raises or returns
\* nothing) still returns 'Completed', leaves current_path and last_updated
\* as they were and deletes no file.
C10_NoArtifactNoSwap ==
    [][(/\ last'.op = "apply"
        /\ last'.sugg # NoPath
        /\ last'.rect = NoPath)
       => /\ last'.outcome = "Completed"
          /\ last'.cid \in DOMAIN Store
          /\ last'.cid \in DOMAIN StoreAfter
          /\ StoreAfter[last'.cid].current_version_path =
                Store[last'.cid].current_version_path
          /\ StoreAfter[last'.cid].last_updated = Store[last'.cid].last_updated
          /\ StoreAfter[last'.cid].path = Store[last'.cid].path
          /\ Gone = {}]_vars

\* the rectifier was invoked on a record that already has a rectified
\* current version, and produced nothing
C10_Witness ==
    /\ last.op = "apply"
    /\ last.outcome = "Completed"
    /\ last.rectCalled
    /\ last.rect = NoPath
    /\ Store[last.cid].last_updated # 0
    /\ Store[last.cid].current_version_path # Store[last.cid].path

\* C12: a mail call that raises or fails to send during a pass undoes nothing
\* and stops nothing: the pass still returns 'Completed', the suggestions path
\* saved before the mail call is still the persisted one, and when the
\* rectifier produced an artifact, the swap is still made and saved (each
\* manifest write taking effect as it does in a pass whose mail is sent).
C12_MailFailureHarmless ==
    [][(/\ last'.op = "apply"
        /\ last'.mailCalled
        /\ last'.smtp \in {"failed", "raise"})
       => /\ last'.outcome = "Completed"
          /\ last'.cid \in DOMAIN StoreAfter
          /\ exists(disk', last'.sugg)
          /\ (last'.suggSaved /\ (last'.rect # NoPath => last'.swapSaved)) =>
                 StoreAfter[last'.cid].last_suggestions_pdf = last'.sugg
          /\ last'.rect # NoPath =>
                 /\ exists(disk', last'.rect)
                 /\ last'.swapSaved =>
                        /\ StoreAfter[last'.cid].current_version_path = last'.rect
                        /\ StoreAfter[last'.cid].last_updated = now
                 /\ last'.unlinkTried <=> last'.old # last'.orig]_vars

\* the mail call raised in a pass whose rectifier produced an artifact, and the
\* store holds the swap and the suggestions path
C12_Witness ==
    /\ last.op = "apply"
    /\ last.smtp = "raise"
    /\ last.rect # NoPath
    /\ last.swapSaved
    /\ Store[last.cid].current_version_path = last.rect
    /\ Store[last.cid].last_suggestions_pdf = last.sugg
    /\ last.sugg # NoPath

\* C13: no failure of a collaborator (extractor, renderer of the suggestions
\* artifact, rectifier, mailer, manifest read or write) propagates out of
\* apply_updates: every pass ends with a returned outcome.
C13_NoExceptionEscapes == last.op = "apply" => last.outcome # "raised"

\* C14: a pass that ends with 'No such contract' or with 'Contract text could
\* not be extracted' writes no suggestions artifact, calls neither the
\* rectifier nor the mailer, and leaves the disk and the Record Store as they
\* were; a pass on an unknown id, or on an input that exists and holds no
\* text, ends that way.
C14_EarlyFailuresChangeNothing ==
    [][last'.op = "apply" =>
          /\ last'.cid \notin DOMAIN Store => last'.outcome = "No such contract"
          /\ (/\ last'.cid \in DOMAIN Store
              /\ exists(disk, InputPath(Store[last'.cid]))
              /\ disk[InputPath(Store[last'.cid])] = "Empty")
             => last'.outcome = "Contract text could not be extracted"
          /\ last'.outcome \in {"No such contract", "Contract text could not be extracted"}
             => /\ disk' = disk
                /\ contract_manifest' = contract_manifest
                /\ last'.sugg = NoPath
                /\ ~last'.rectCalled
                /\ ~last'.mailCalled]_vars

\* a pass has found an existing input file without text, after regulations
\* were fetched
C14_Witness ==
    /\ last.op = "apply"
    /\ last.outcome = "Contract text could not be extracted"
    /\ exists(disk, last.cpath)
    /\ disk[last.cpath] = "Empty"
    /\ DOMAIN load_json(reg_manifest) # {}

\* C16: a registration under an id that the store already holds returns its
\* normal outcome and, its manifest write taking effect, replaces the record:
\* path = current_version_path = the new destination, no suggestions path, no
\* last_updated; the other records are as they were.
C16_ReRegisterReplaces ==
    [][(/\ last'.op \in {"upload", "register"}
        /\ last'.cid \in DOMAIN Store
        /\ last'.dest # NoPath)
       => /\ last'.outcome \in {"registered", "Registered contract", "Failed to copy"}
          /\ (last'.outcome # "Failed to copy" /\ last'.saved) =>
                /\ StoreAfter[last'.cid] = [path |-> last'.dest,
                                            current_version_path |-> last'.dest,
                                            last_suggestions_pdf |-> NoPath,
                                            last_updated |-> 0]
                /\ DOMAIN StoreAfter = DOMAIN Store
                /\ \A k \in DOMAIN Store : k # last'.cid => StoreAfter[k] = Store[k]]_vars

\* a registration has replaced a record that had a suggestions artifact
C16_Witness ==
    /\ Registered
    /\ Store[last.cid].last_suggestions_pdf = NoPath
    /\ \E p \in DOMAIN disk :
           /\ p.dir = SUGGESTIONS_DIR
           /\ Len(p.stem) = Len(last.cid) + 1
           /\ SubSeq(p.stem, 1, Len(last.cid)) = last.cid

\* C11: the SMTP send is made only with at least one attachment that exists
\* and is not empty; what the mailer attaches is exactly the paths it was
\* given that exist and are not empty, and with none of them it returns
\* without a send; the orchestrator and the UI call the mailer only with a
\* non-empty list.
C11_NeverSendsEmpty ==
    /\ last.smtp \in {"sent", "failed"} => last.mailed # {}
    /\ last.mailCalled =>
           /\ last.smtp # "raise" =>
                  last.mailed = {p \in last.attachments :
                                    p \in DOMAIN disk /\ disk[p] # "Empty"}
           /\ last.mailed = {} => last.smtp \in {"none", "raise"}
    /\ (last.op \in {"apply", "send_email"} /\ last.mailCalled) => last.attachments # {}
    /\ last.op = "apply" =>
           (last.mailCalled <=> last.outcome = "Completed")

\* the mailer was given one missing and one present path and sent the present one
C11_Witness ==
    /\ last.op = "mailer"
    /\ last.smtp = "sent"
    /\ Cardinality(last.attachments) = 2
    /\ Cardinality(last.mailed) = 1
    /\ \E p \in last.attachments : ~exists(disk, p)
    /\ \A p \in last.mailed : exists(disk, p) /\ disk[p] # "Empty"

\* C17 as stated: no operation removes an id from the persisted Record Store.
C17_AsStated == [][DOMAIN Store \subseteq DOMAIN StoreAfter]_vars

\* C17 amended: every operation whose manifest write completes, or fails
\* without touching the file, keeps every id of the persisted store; a write
\* that fails after the file was truncated leaves a manifest that cannot be
\* parsed, which holds no id any more.
C17_RecordsKept ==
    [][/\ contract_manifest'.kind # "corrupt" =>
              /\ DOMAIN Store \subseteq DOMAIN StoreAfter
              /\ \A k \in DOMAIN Store :
                     (last'.cid # k \/ last'.op \notin {"upload", "register", "apply"})
                         => StoreAfter[k] = Store[k]
       /\ contract_manifest'.kind = "corrupt" => DOMAIN StoreAfter = {}]_vars

\* a pass on one record has saved the store, and the other record is still there
C17_Witness ==
    /\ last.op = "apply"
    /\ last.outcome = "Completed"
    /\ last.suggSaved
    /\ contract_manifest.kind = "json"
    /\ Cardinality(DOMAIN Store) = 2
    /\ \E k \in DOMAIN Store : k # last.cid /\ Store[k].last_suggestions_pdf = NoPath

\* C18: loading a manifest file that is missing or cannot be parsed gives the
\* empty mapping, for both loaders and both manifests, and raises nothing: a
\* pass that finds the contract manifest in that state returns 'No such
\* contract', and a registration that finds it so persists a store with its
\* own record alone.
C18_LoadEmpty ==
    /\ [](contract_manifest.kind \in {"missing", "corrupt"} =>
              /\ load_json(contract_manifest) = <<>>
              /\ load_contract_manifest(contract_manifest) = <<>>)
    /\ [](reg_manifest.kind \in {"missing", "corrupt"} =>
              load_json(reg_manifest) = <<>>)
    /\ [][(/\ contract_manifest.kind \in {"missing", "corrupt"}
            /\ last'.op = "apply")
           => /\ last'.outcome = "No such contract"
              /\ contract_manifest' = contract_manifest]_vars
    /\ [][(/\ contract_manifest.kind \in {"missing", "corrupt"}
            /\ last'.op \in {"upload", "register"}
            /\ last'.saved)
           => /\ last'.outcome \in {"registered", "Registered contract"}
              /\ DOMAIN StoreAfter = {last'.cid}]_vars

\* a pass was asked for an id that a damaged manifest file still shows, and
\* returned 'No such contract'
C18_Witness ==
    /\ contract_manifest.kind = "corrupt"
    /\ last.op = "apply"
    /\ last.outcome = "No such contract"
    /\ last.cid \in DOMAIN contract_manifest.data

\* the persisted regulation store, before and after a step
Regs == load_json(reg_manifest)

RegsAfter == load_json(reg_manifest')

\* C19: whichever sources fail, register_regulations returns its log of three
\* updates and, its manifest write taking effect, the regulation store holds
\* EU_GDPR, IN_DPDP and IN_SPDI_RULES with one version token and one snapshot
\* path, the text of a failed source being its fallback summary; entries
\* under other ids are as before.
C19_BatchNeverAborts ==
    [][last'.op = "regulations" =>
          /\ last'.outcome = "Updated regulation"
          /\ last'.saved =>
                 /\ DOMAIN RegsAfter = (DOMAIN Regs) \cup {"EU_GDPR", "IN_DPDP", "IN_SPDI_RULES"}
                 /\ \A rid \in {"EU_GDPR", "IN_DPDP", "IN_SPDI_RULES"} :
                        /\ RegsAfter[rid].version = now
                        /\ RegsAfter[rid].version = RegsAfter["EU_GDPR"].version
                        /\ RegsAfter[rid].snapshot_pdf = RegsAfter["EU_GDPR"].snapshot_pdf
                        /\ RegsAfter[rid].snapshot_pdf # NoPath
                        /\ ~last'.fetched[rid] => RegsAfter[rid].text = FallbackText[rid]
                        /\ last'.fetched[rid] => RegsAfter[rid].text # FallbackText[rid]
                 /\ \A rid \in DOMAIN Regs :
                        rid \notin {"EU_GDPR", "IN_DPDP", "IN_SPDI_RULES"}
                            => RegsAfter[rid] = Regs[rid]]_vars

\* one source failed, two answered, and an entry under another id is kept
C19_Witness ==
    /\ last.op = "regulations"
    /\ last.saved
    /\ ~last.fetched["IN_DPDP"]
    /\ last.fetched["EU_GDPR"]
    /\ last.fetched["IN_SPDI_RULES"]
    /\ Regs["IN_DPDP"].text = FallbackText["IN_DPDP"]
    /\ OTHER_REG \in DOMAIN Regs
    /\ Regs[OTHER_REG].version = 0
    /\ Regs["EU_GDPR"].version = now

\* the characters a and b are the same letter, whatever their case
SameLetter(a, b) ==
    \/ a = b
    \/ a \in DOMAIN UpperToLower /\ UpperToLower[a] = b
    \/ b \in DOMAIN UpperToLower /\ UpperToLower[b] = a

\* phrase occurs in text, case ignored
Occurs(phrase, text) ==
    \E i \in 1..(Len(text) + 1 - Len(phrase)) :
        \A j \in 1..Len(phrase) : SameLetter(text[i + j - 1], phrase[j])

\* C20: detect_risks(text) holds the pair (severity, phrase) exactly when
\* phrase is a keyword of that severity and occurs in the text as a substring,
\* case ignored, and holds no pair twice; a text with "No Data Protection"
\* gives ("high", "no data protection"), and the empty text gives nothing.
C20_DetectRisks ==
    last.op = "detect_risks" =>
        /\ last.findings = detect_risks(last.text)
        /\ \A level \in {"high", "medium", "low"} :
               \A k \in 1..Len(RISK_KEYWORDS[level]) :
                   (\E i \in 1..Len(last.findings) :
                        last.findings[i] = <<level, RISK_KEYWORDS[level][k]>>)
                   <=> Occurs(RISK_KEYWORDS[level][k], last.text)
        /\ \A i \in 1..Len(last.findings) :
               /\ last.findings[i][1] \in {"high", "medium", "low"}
               /\ \E k \in 1..Len(RISK_KEYWORDS[last.findings[i][1]]) :
                      RISK_KEYWORDS[last.findings[i][1]][k] = last.findings[i][2]
               /\ \A j \in 1..Len(last.findings) : i # j => last.findings[i] # last.findings[j]
        /\ contains(last.text, <<"N", "o", " ", "D", "a", "t", "a", " ", "P", "r", "o", "t",
                                 "e", "c", "t", "i", "o", "n">>)
               => \E i \in 1..Len(last.findings) :
                      last.findings[i] = <<"high", RISK_KEYWORDS.high[1]>>
        /\ last.text = <<>> => last.findings = <<>>

\* a text with "No Data Protection" and "Audit" in it gave a high and a low finding
C20_Witness ==
    /\ last.op = "detect_risks"
    /\ \E i \in 1..Len(last.text) : last.text[i] = "N"
    /\ \E i \in 1..Len(last.text) : last.text[i] = "A"
    /\ Len(last.findings) = 2
    /\ last.findings[1] = <<"high", RISK_KEYWORDS.high[1]>>
    /\ last.findings[2] = <<"low", RISK_KEYWORDS.low[3]>>

\* C15: two passes on one id race on the manifest and on the input file.  A
\* pass saves the mapping it loaded, whatever was written since: after its
\* first save the persisted current_path is the one it loaded, and after its
\* swap save the persisted record is its own (last write wins); and the input
\* a running pass has chosen is missing only when the other pass deleted it.
\* The witnesses show that an update is lost and that an input is deleted.
C15_LastWriteWins ==
    /\ [][\A p \in ProcIds :
              /\ (proc[p].pc = "loaded" /\ proc'[p].pc = "suggested") =>
                     /\ StoreAfter[proc[p].cid].current_version_path = proc[p].cpath
                     /\ StoreAfter[proc[p].cid].last_suggestions_pdf = proc'[p].sugg
              /\ (proc[p].pc = "rectified" /\ proc'[p].pc = "swapped") =>
                     /\ StoreAfter[proc[p].cid].current_version_path = proc[p].rect
                     /\ StoreAfter[proc[p].cid].last_suggestions_pdf = proc[p].sugg
                     /\ proc'[p].old = proc[p].cpath]_vars
    /\ [](\A p \in ProcIds :
              (proc[p].pc \in {"loaded", "suggested"} /\ ~exists(disk, proc[p].cpath))
                  => \E q \in ProcIds \ {p} :
                         /\ proc[q].pc = "done"
                         /\ proc[q].deleted = proc[p].cpath)

\* both passes are over; one swapped the current version to its artifact and
\* deleted the file the other had chosen as its input, and the other's save
\* has overwritten the swap: the store names the deleted file
C15_Witness ==
    \E p \in ProcIds, q \in ProcIds :
        /\ p # q
        /\ proc[p].pc = "done"
        /\ proc[q].pc = "done"
        /\ proc[p].rect # NoPath
        /\ exists(disk, proc[p].rect)
        /\ proc[p].deleted = proc[q].cpath
        /\ proc[q].cpath # NoPath
        /\ Store[proc[p].cid].current_version_path # proc[p].rect
        /\ Store[proc[p].cid].current_version_path = proc[q].cpath
        /\ ~exists(disk, proc[q].cpath)

\* both passes produced an artifact and the store shows only one of them
C15_WitnessLostUpdate ==
    \E p \in ProcIds, q \in ProcIds :
        /\ p # q
        /\ proc[p].pc = "done"
        /\ proc[q].pc = "done"
        /\ proc[p].rect # NoPath
        /\ proc[q].rect # NoPath
        /\ proc[p].rect # proc[q].rect
        /\ Store[proc[p].cid].current_version_path = proc[q].rect
        /\ exists(disk, proc[p].rect)

\* the retrieval ran without the semantic collaborator: rag is not imported,
\* or no index could be had for the path
NoIndex == last.op = "retrieve" /\ last.cpath # NoPath /\ last.idx = "None"

\* C21 as stated: without the semantic retrieval collaborator
\* retrieve_context_chunks returns the empty list for every query and path.
C21_AsStated == NoIndex => last.chunks = <<>>

\* C21 amended: without the semantic retrieval collaborator
\* retrieve_context_chunks raises nothing and returns no semantic chunk; it
\* returns the empty list when regupdate is absent or the extractor reads no
\* text from the path, and otherwise one chunk, the first 2500 characters of
\* the text extracted from the contract file.
C21_DegradesToRawText ==
    NoIndex =>
        /\ last.outcome = "returned"
        /\ \A i \in 1..Len(last.chunks) : last.chunks[i].kind # "semantic"
        /\ last.chunks = <<>> <=>
               (\/ ~chatbot.regupdate
                \/ ~exists(disk, last.cpath)
                \/ disk[last.cpath] = "Empty"
                \/ last.text[1] = 0)
        /\ last.chunks # <<>> =>
               /\ Len(last.chunks) = 1
               /\ last.chunks[1].of = last.cpath
               /\ last.chunks[1].len = (IF last.text[1] < 2500 THEN last.text[1] ELSE 2500)

\* rag is absent and the question about a stored contract got the head of its
\* raw text as the only chunk
C21_Witness ==
    /\ NoIndex
    /\ ~chatbot.rag
    /\ last.text[1] = 2501
    /\ Len(last.chunks) = 1
    /\ last.chunks[1].kind = "text"
    /\ last.chunks[1].len = 2500

\* C22: the swap saves the manifest before it deletes the old current file,
\* so in every state of a pass, a crash between two steps included, the
\* current_path of the persisted store names no file that a pass has deleted.
C22_CurrentNeverDeleted ==
    \A p \in DOMAIN proc :
        proc[p].deleted # NoPath =>
            \A cid \in DOMAIN Store : Store[cid].current_version_path # proc[p].deleted

\* the rectified artifacts of record cid among the files of d: the files of
\* CONTRACT_VERSIONS_DIR named <cid>_RECTIFIED_<ts>..., which is how
\* save_rectified_as_pdf names what it derives from the record's versions
RectifiedIn(d, cid) ==
    {p \in DOMAIN d :
        /\ p.dir = CONTRACT_VERSIONS_DIR
        /\ Len(p.stem) > Len(cid)
        /\ SubSeq(p.stem, 1, Len(cid)) = cid
        /\ p.stem[Len(cid) + 1][1] = "RECTIFIED"}

\* no rectified artifact of cid but the one the store names as current
OneArtifactIn(d, store, cid) ==
    /\ cid \in DOMAIN store
    /\ RectifiedIn(d, cid) \subseteq {store[cid].current_version_path}

C24_NoRegulations ==
    [][(/\ last'.op = "apply"
        /\ last'.cid \in DOMAIN Store
        /\ exists(disk, InputPath(Store[last'.cid]))
        /\ disk[InputPath(Store[last'.cid])] # "Empty"
        /\ last'.outcome # "Contract text could not be extracted"
        /\ DOMAIN Regs = {})
       => /\ last'.outcome = "No regulations registered"
          /\ last'.sugg = NoPath
          /\ ~last'.rectCalled
          /\ ~last'.mailCalled
          /\ disk' = disk
          /\ contract_manifest' = contract_manifest
          /\ StoreAfter[last'.cid] = Store[last'.cid]]_vars

\* a pass on a registered contract with text found the regulation store empty
C24_Witness ==
    /\ last.op = "apply"
    /\ last.outcome = "No regulations registered"
    /\ DOMAIN Regs = {}
    /\ last.cid \in DOMAIN Store
    /\ exists(disk, last.cpath)
    /\ disk[last.cpath] # "Empty"
    /\ Store[last.cid].current_version_path = last.cpath

\* C25: after a successful register_contract_from_path(p) the file at the new
\* record's original path holds the bytes p held before the call, for every
\* existing source p, one inside the managed contracts directory included.
C25_CopyKeepsBytes ==
    [][(/\ last'.op = "register"
        /\ last'.outcome = "Registered contract")
       => /\ exists(disk', last'.dest)
          /\ disk'[last'.dest] = disk[last'.src]
          /\ last'.saved => StoreAfter[last'.cid].path = last'.dest]_vars

\* C26: in every sequence of UI uploads, several uploads of one filename
\* within one clock second included, _save_uploaded_file never writes over a
\* file that the original path of an existing record refers to.
C26_UploadNeverOverwrites ==
    [][last'.op = "upload" =>
          \A cid \in DOMAIN Store : Store[cid].path # last'.dest]_vars

\* C27 as stated: a registration whose destination is another file than the
\* one an existing record refers to gets another id than that record, for
\* a.pdf and a.txt too.
C27_AsStated ==
    [][(Registered' /\ last'.op \in {"upload", "register"}) =>
          \A k \in DOMAIN Store : Store[k].path # last'.dest => k # last'.cid]_vars

\* C27 amended: the id of a registration is the stem of its destination file
\* name, so two registrations get different ids exactly when the stems of
\* their destinations differ; a registration whose destination has the stem
\* of an existing record's file and another extension (a.txt after a.pdf)
\* takes that record's id and replaces the record, and the records under
\* other ids stay as they were.
C27_IdIsStem ==
    /\ [](\A k \in DOMAIN Store : Store[k].path.stem = k)
    /\ [][(Registered' /\ last'.op \in {"upload", "register"}) =>
             /\ last'.cid = last'.dest.stem
             /\ \A k \in DOMAIN Store :
                    /\ (k = last'.cid) <=> (Store[k].path.stem = last'.dest.stem)
                    /\ Store[k].path.stem = last'.dest.stem =>
                           StoreAfter[k].path = last'.dest
                    /\ k # last'.cid => StoreAfter[k] = Store[k]]_vars

\* a.txt was registered after a.pdf: both files are stored, and the one
\* record there is names a.txt
C27_Witness ==
    /\ Registered
    /\ last.dest = mkpath(CONTRACT_DIR, << <<"a", 0>> >>, "txt")
    /\ exists(disk, mkpath(CONTRACT_DIR, << <<"a", 0>> >>, "pdf"))
    /\ exists(disk, last.dest)
    /\ DOMAIN Store = {<< <<"a", 0>> >>}
    /\ Store[<< <<"a", 0>> >>].path = last.dest

\* C28: Run Analysis calls the orchestrator with auto_apply = False and runs
\* the rectifier itself without writing its result to the manifest: through
\* every sequence of UI uploads and Run Analysis actions every record has
\* current_path = original_path, no file is deleted, and every rectification
\* takes the original upload of the active record as its input.
C28_RunAnalysisKeepsOriginal ==
    /\ [](\A k \in DOMAIN Store : Store[k].current_version_path = Store[k].path)
    /\ [][Gone = {}]_vars
    /\ [][last'.op = "run_analysis" =>
             /\ ~last'.rectCalled
             /\ last'.rect = NoPath
             /\ last'.cid \in DOMAIN Store
             /\ last'.cid \in DOMAIN StoreAfter
             /\ StoreAfter[last'.cid].current_version_path = Store[last'.cid].path
             /\ last'.src = Store[last'.cid].path
             /\ last'.src.dir = CONTRACT_DIR
             /\ last'.ui_rect # NoPath =>
                    /\ last'.ui_rect = RectifiedPath(Store[last'.cid].path, now)
                    /\ exists(disk', last'.ui_rect)
                    /\ \A k \in DOMAIN StoreAfter :
                           /\ StoreAfter[k].current_version_path # last'.ui_rect
                           /\ StoreAfter[k].path # last'.ui_rect]_vars

\* Run Analysis has written a suggestions artifact and a rectified artifact
\* derived from the upload, both are left for the e-mail, and the record still
\* names the upload as its current version
C28_Witness ==
    /\ last.op = "run_analysis"
    /\ last.ui_rect # NoPath
    /\ last.sugg # NoPath
    /\ last.email_attachments = {last.ui_rect, last.sugg}
    /\ Store[last.cid].current_version_path = last.src
    /\ Store[last.cid].path = last.src
    /\ Store[last.cid].last_suggestions_pdf = last.sugg
    /\ RectifiedIn(disk, last.cid) = {last.ui_rect}

\* a pass of p makes one of its two manifest saves in this step
Saves(p) ==
    \/ proc[p].pc = "loaded" /\ proc'[p].pc = "suggested"
    \/ proc[p].pc = "rectified" /\ proc'[p].pc = "swapped"

\* C29 as stated: a record registered under another id while a pass is under
\* way is still in the persisted store after the pass's saves; a pass changes
\* the record of its own id only.
C29_AsStated ==
    [][\A p \in ProcIds :
          Saves(p) =>
              \A k \in DOMAIN Store :
                  k # proc[p].cid => (k \in DOMAIN StoreAfter /\ StoreAfter[k] = Store[k])]_vars

\* C29 amended: each save of a pass writes the mapping the pass loaded at its
\* start, with the changes to its own record; the store then holds exactly the
\* ids of that mapping, the other records as they were loaded, and a record
\* registered under another id since the load is no longer in the store.
C29_PassSavesItsView ==
    [][\A p \in ProcIds :
          Saves(p) =>
              /\ DOMAIN StoreAfter = DOMAIN proc[p].contract_manifests
              /\ \A k \in DOMAIN StoreAfter :
                     k # proc[p].cid => StoreAfter[k] = proc[p].contract_manifests[k]
              /\ \A k \in DOMAIN Store :
                     k \notin DOMAIN proc[p].contract_manifests => k \notin DOMAIN StoreAfter]_vars

\* an upload was registered and persisted after a pass on another id had
\* loaded the manifest, and the pass's save has removed its record
C29_Witness ==
    \E p \in ProcIds :
        /\ proc[p].pc \in {"suggested", "rectified", "swapped", "done"}
        /\ proc[p].sugg # NoPath
        /\ last.op = "upload"
        /\ last.saved
        /\ last.cid # proc[p].cid
        /\ exists(disk, last.dest)
        /\ last.cid \notin DOMAIN proc[p].contract_manifests
        /\ last.cid \notin DOMAIN Store
        /\ proc[p].cid \in DOMAIN Store

\* C30: a registration that finds the contract manifest file unparsable still
\* succeeds and, its manifest write taking effect, leaves a persisted store
\* with exactly one record, its own; every record the file held before is
\* absent.
C30_RegisterOnCorruptManifest ==
    [][(/\ contract_manifest.kind = "corrupt"
        /\ last'.op \in {"upload", "register"})
       => /\ last'.op = "upload" => last'.outcome = "registered"
          /\ last'.outcome \in {"registered", "Registered contract", "File not found",
                                "Failed to copy"}
          /\ last'.outcome \in {"File not found", "Failed to copy"} =>
                 (contract_manifest' = contract_manifest /\ disk' = disk)
          /\ last'.outcome \in {"registered", "Registered contract"} =>
                 /\ exists(disk', last'.dest)
                 /\ last'.saved =>
                        /\ contract_manifest'.kind = "json"
                        /\ DOMAIN StoreAfter = {last'.cid}
                        /\ StoreAfter[last'.cid] = [path |-> last'.dest,
                                                    current_version_path |-> last'.dest,
                                                    last_suggestions_pdf |-> NoPath,
                                                    last_updated |-> 0]
                        /\ \A k \in DOMAIN contract_manifest.data :
                               k # last'.cid => k \notin DOMAIN StoreAfter]_vars

\* a registration has persisted a store with its record alone, and the
\* suggestions artifact of a pass on another id shows that the store once held
\* that id
C30_Witness ==
    /\ Registered
    /\ contract_manifest.kind = "json"
    /\ DOMAIN Store = {last.cid}
    /\ \E p \in DOMAIN disk :
           /\ p.dir = SUGGESTIONS_DIR
           /\ SubSeq(p.stem, 1, Len(p.stem) - 1) # last.cid
           /\ mkpath(CONTRACT_DIR, SubSeq(p.stem, 1, Len(p.stem) - 1), "pdf") \in DOMAIN disk

====
